---- MODULE Spec2Model ----
(***************************************************************************)
(* ErusianTracker crawl pipeline (scripts/crawl.js, variant 3.6):          *)
(* fetchWithRetry, listPostsFromArchive and crawl as one state machine.    *)
(* The three layers call one another, so each has its own position         *)
(* variable: fpc (fetchWithRetry), lpc (listPostsFromArchive), pc (crawl). *)
(***************************************************************************)
EXTENDS Integers, Sequences, FiniteSets, TLC

(***************************************************************************)
(* Program constants.                                                      *)
(***************************************************************************)
MAX_RETRIES == 10
BackoffCap429 == 120000
BackoffBase429 == 1000
JitterSpan429 == 800
BackoffCap5xx == 60000
BackoffBase5xx == 800
JitterSpan5xx == 600
SnippetLen == 200
PageLimit == 12

(***************************************************************************)
(* Bounds of the model.                                                    *)
(***************************************************************************)
MaxPageRequests == 3

(***************************************************************************)
(* Arithmetic helpers.                                                     *)
(***************************************************************************)
Min(a, b) == IF a <= b THEN a ELSE b
Max(a, b) == IF a >= b THEN a ELSE b

RECURSIVE Pow2(_)
Pow2(n) == IF n = 0 THEN 1 ELSE 2 * Pow2(n - 1)

(***************************************************************************)
(* Text is a sequence of one-character strings.                            *)
(***************************************************************************)
Digits == {"0", "1", "2", "3", "4", "5", "6", "7", "8", "9"}

DigitValue(c) ==
  CASE c = "0" -> 0 [] c = "1" -> 1 [] c = "2" -> 2 [] c = "3" -> 3
    [] c = "4" -> 4 [] c = "5" -> 5 [] c = "6" -> 6 [] c = "7" -> 7
    [] c = "8" -> 8 [] c = "9" -> 9

\* /^\d+$/.test(s)
IsDigitString(s) == Len(s) >= 1 /\ \A i \in 1..Len(s) : s[i] \in Digits

\* Number(s) for a string of decimal digits
RECURSIVE ToNumber(_)
ToNumber(s) ==
  IF s = <<>> THEN 0
  ELSE 10 * ToNumber(SubSeq(s, 1, Len(s) - 1)) + DigitValue(s[Len(s)])

\* text.slice(0, n)
Slice(s, n) == SubSeq(s, 1, Min(n, Len(s)))

\* a body of n characters whose i-th character depends on i
TextOfLen(n) == [i \in 1..n |-> IF i % 2 = 0 THEN "a" ELSE "b"]

(***************************************************************************)
(* The remote service: what one HTTP exchange can answer.                  *)
(***************************************************************************)
\* r.headers.get("retry-after"): null when absent, else the header's text
NoHeader == [present |-> FALSE, chars |-> <<>>]
Header(s) == [present |-> TRUE, chars |-> s]
RetryAfterHeaders ==
  { NoHeader, Header(<<>>), Header(<<"2">>), Header(<<"3", "0", "0">>),
    Header(<<"1", ".", "5">>) }

ErrorBodies == { TextOfLen(0), TextOfLen(3), TextOfLen(200), TextOfLen(201) }

\* one HTTP response as fetchWithRetry reads it: r.status, the retry-after
\* header, and the body text that r.text() yields
NoResp == [status |-> 0, retryAfter |-> NoHeader, text |-> <<>>]
Resp(st, h, t) == [status |-> st, retryAfter |-> h, text |-> t]

OkStatuses == {200, 299}
ServerErrorStatuses == {500, 599}
OtherStatuses == {404, 600}

Responses ==
  {Resp(st, NoHeader, TextOfLen(3)) : st \in OkStatuses}
    \cup {Resp(429, h, TextOfLen(0)) : h \in RetryAfterHeaders}
    \cup {Resp(st, NoHeader, TextOfLen(3)) : st \in ServerErrorStatuses}
    \cup {Resp(st, NoHeader, t) : st \in OtherStatuses, t \in ErrorBodies}

\* Math.floor(Math.random() * 800) and Math.floor(Math.random() * 600)
Jitters429 == {0, 400, JitterSpan429 - 1}
Jitters5xx == {0, JitterSpan5xx - 1}

(***************************************************************************)
(* Text helpers of the pipeline.                                           *)
(***************************************************************************)
Whitespace == {" ", "\t", "\n", "\r"}

RECURSIVE DropLeading(_, _)
DropLeading(s, chars) ==
  IF s # <<>> /\ Head(s) \in chars THEN DropLeading(Tail(s), chars) ELSE s

RECURSIVE DropTrailing(_, _)
DropTrailing(s, chars) ==
  IF s # <<>> /\ s[Len(s)] \in chars
  THEN DropTrailing(SubSeq(s, 1, Len(s) - 1), chars)
  ELSE s

\* s.trim()
Trim(s) == DropTrailing(DropLeading(s, Whitespace), Whitespace)

\* s.replace(/X+/g, " ") for a character class X
RECURSIVE CollapseRuns(_, _)
CollapseRuns(s, chars) ==
  IF s = <<>> THEN <<>>
  ELSE IF Head(s) \in chars
       THEN <<" ">> \o CollapseRuns(DropLeading(s, chars), chars)
       ELSE <<Head(s)>> \o CollapseRuns(Tail(s), chars)

\* s.replace(/\r/g, "")
RECURSIVE RemoveCR(_)
RemoveCR(s) ==
  IF s = <<>> THEN <<>>
  ELSE IF Head(s) = "\r" THEN RemoveCR(Tail(s))
       ELSE <<Head(s)>> \o RemoveCR(Tail(s))

\* s.split("\n")
RECURSIVE SplitLines(_)
SplitLines(s) ==
  IF \A i \in 1..Len(s) : s[i] # "\n" THEN <<s>>
  ELSE LET k == CHOOSE i \in 1..Len(s) : s[i] = "\n" /\ \A j \in 1..(i - 1) : s[j] # "\n"
       IN <<SubSeq(s, 1, k - 1)>> \o SplitLines(SubSeq(s, k + 1, Len(s)))

\* lines.join("\n")
RECURSIVE JoinLines(_)
JoinLines(lines) ==
  IF lines = <<>> THEN <<>>
  ELSE IF Len(lines) = 1 THEN lines[1]
       ELSE lines[1] \o <<"\n">> \o JoinLines(Tail(lines))

\* s.replace(/\n{3,}/g, "\n\n")
RECURSIVE CollapseBlankLines(_)
CollapseBlankLines(s) ==
  IF s = <<>> THEN <<>>
  ELSE IF Head(s) = "\n"
       THEN LET rest == DropLeading(s, {"\n"})
                run == Len(s) - Len(rest)
            IN (IF run >= 3 THEN <<"\n", "\n">> ELSE SubSeq(s, 1, run))
                 \o CollapseBlankLines(rest)
       ELSE <<Head(s)>> \o CollapseBlankLines(Tail(s))

\* toLowerCase() on the letters the model uses
LowerChar(c) ==
  CASE c = "E" -> "e" [] c = "J" -> "j" [] c = "A" -> "a" [] c = "B" -> "b"
    [] c = "N" -> "n" [] OTHER -> c

ToLowerCase(s) == [i \in 1..Len(s) |-> LowerChar(s[i])]

\* s.replace(/^@/, "")
StripAt(s) == IF s # <<>> /\ Head(s) = "@" THEN Tail(s) ELSE s

\* normalizeTextOneLine: (s || "").replace(/\s+/g, " ").trim()
NormalizeTextOneLine(s) == Trim(CollapseRuns(s, Whitespace))

\* normalizeLine: (line || "").replace(/[ \t]+/g, " ").trimEnd()
NormalizeLine(line) == DropTrailing(CollapseRuns(line, {" ", "\t"}), Whitespace)

\* /[<][a-z!/]/i.test(s)
LooksLikeHtml(s) ==
  \E i \in 1..(Len(s) - 1) :
    s[i] = "<" /\ s[i + 1] \in {"a", "b", "e", "j", "p", "A", "B", "E", "J", "P", "!", "/"}

\* htmlToTextPreserveFormatting, the branch for text that holds no markup
PlainTextToText(s) ==
  LET lines == SplitLines(RemoveCR(s))
      norm == [i \in 1..Len(lines) |-> NormalizeLine(lines[i])]
  IN Trim(CollapseBlankLines(JoinLines(norm)))

\* htmlToTextPreserveFormatting (bodies of the model hold no markup)
HtmlToTextPreserveFormatting(s) ==
  IF s = <<>> THEN <<>> ELSE PlainTextToText(s)

(***************************************************************************)
(* The index feed, the post lookup and the comment payload.                *)
(***************************************************************************)
Null == -1

\* x is truthy, for a number or null
Truthy(x) == x # Null /\ x # 0

\* a URL string: present in the item or not, parsable by new URL() or not,
\* and the segments of its pathname
NoUrl == [present |-> FALSE, valid |-> FALSE, path |-> <<>>]
Url(path) == [present |-> TRUE, valid |-> TRUE, path |-> path]
UrlA == Url(<<"p", "a">>)
UrlB == Url(<<"p", "b">>)
UrlAbout == Url(<<"about">>)

\* one item of an archive page: item.canonical_url, item.title
Item(u, t) == [canonical_url |-> u, title |-> t]
ItemA == Item(UrlA, "Post A")
ItemB == Item(UrlB, "")
ItemAbout == Item(UrlAbout, "About")
ItemNoUrl == Item(NoUrl, "Podcast")

\* the parsed JSON of an archive page
ArrayPage(items) == [isArray |-> TRUE, items |-> items]
NotAnArray == [isArray |-> FALSE, items |-> <<>>]

PagePayloads ==
  { ArrayPage(<<>>), NotAnArray,
    ArrayPage(<<ItemA>>), ArrayPage(<<ItemNoUrl>>),
    ArrayPage(<<ItemB, ItemNoUrl, ItemAbout>>),
    ArrayPage([i \in 1..PageLimit |-> ItemA]),
    ArrayPage([i \in 1..(PageLimit + 1) |-> ItemB]) }

\* the errors fetchJson can throw: the two of fetchWithRetry and r.json()'s
FetchJsonErrors == {"HTTP", "RetriesExhausted", "SyntaxError"}

\* the parsed JSON of /api/v1/posts/<slug>
Meta(id, postDotId, post_id, postId) ==
  [id |-> id, postDotId |-> postDotId, post_id |-> post_id, postId |-> postId]
MetaPayloads ==
  { Meta(7, Null, Null, Null), Meta(Null, Null, 8, Null), Meta(Null, Null, Null, Null),
    Meta(0, Null, Null, Null) }

\* a list-valued key of a comment node: absent, or an array
Absent == [present |-> FALSE, list |-> <<>>]
List(l) == [present |-> TRUE, list |-> l]

\* one comment node of the payload
Node(uname, name, uhandle, body, id, comment_id, likes, children, replies) ==
  [ u_name |-> uname, u_profile_name |-> <<>>, user_name |-> <<>>,
    commenter_name |-> <<>>, name |-> name,
    u_handle |-> uhandle, u_username |-> <<>>, u_slug |-> <<>>, handle |-> <<>>,
    body_html |-> <<>>, body |-> body, text |-> <<>>,
    id |-> id, comment_id |-> comment_id, commentId |-> Null,
    date |-> Null,
    reactions_like |-> Null, like_count |-> likes, likes |-> Null,
    children |-> children, replies |-> replies, responses |-> Absent,
    thread |-> Absent, comments |-> Absent, isObject |-> TRUE ]

\* an entry of a comment list that is not an object: null, a string, a number
NonObject(value) == [isObject |-> FALSE, value |-> value]

Erusian == <<"E", "r", "u", "s", "i", "a", "n">>
Bob == <<"B", "o", "b">>
Hello == <<"h", "i", " ", " ", "x", " ">>
Blank == <<" ", "\n">>

ReplyByTarget == Node(<<>>, Erusian, <<>>, Hello, 1, 2, 3, Absent, Absent)
RootByOther == Node(Bob, <<>>, <<"b", "o", "b">>, Hello, 1, Null, 0, List(<<ReplyByTarget>>), Absent)
RootByTarget == Node(<<" ">> \o Erusian, <<>>, <<>>, Hello, 5, Null, Null, Absent, List(<<>>))
RootByHandle == Node(Bob, <<>>, <<"@", "E", "r", "u", "s", "i", "a", "n">>, Hello, 6, Null, 1, Absent, Absent)
BlankByTarget == Node(Erusian, <<>>, <<>>, Blank, 9, Null, 0, Absent, Absent)
ReplyByOther == Node(Bob, <<>>, <<"b", "o", "b">>, Hello, 5, 11, 0, Absent, Absent)
RootByTargetWithReply == Node(Erusian, <<>>, <<>>, Hello, 5, Null, Null, List(<<ReplyByOther>>), Absent)

\* the parsed JSON of /api/v1/post/<id>/comments
ArrayData(nodes) == [isArray |-> TRUE, items |-> nodes, comments |-> Absent]
ObjectData(c) == [isArray |-> FALSE, items |-> <<>>, comments |-> c]

CommentPayloads ==
  { ArrayData(<<>>), ArrayData(<<RootByOther>>), ArrayData(<<RootByTarget, RootByTarget>>),
    ArrayData(<<RootByTargetWithReply>>),
    ObjectData(List(<<RootByHandle, BlankByTarget>>)), ObjectData(Absent) }

\* USERNAME_RAW, wantedName, wantedHandle
USERNAME_RAW == Erusian
WantedName(raw) == Trim(raw)
WantedHandle(raw) == StripAt(ToLowerCase(Trim(raw)))
wantedName == WantedName(USERNAME_RAW)
wantedHandle == WantedHandle(USERNAME_RAW)

(***************************************************************************)
(* Pure functions of the pipeline.                                         *)
(***************************************************************************)
\* slugFromPostUrl: new URL(postUrl).pathname.match(/^\/p\/([^/?#]+)/), null as ""
SlugFromPostUrl(u) ==
  IF u.valid /\ Len(u.path) >= 2 /\ u.path[1] = "p" /\ u.path[2] # ""
  THEN u.path[2]
  ELSE ""

\* title: item?.title ? String(item.title) : null, null as "<null>"
TitleOf(item) == IF item.title # "" THEN item.title ELSE "<null>"

\* faulty variant: the for loop without its break at maxPosts
RECURSIVE CollectPostsNoBreak(_, _, _)
CollectPostsNoBreak(acc, items, maxP) ==
  IF items = <<>> THEN acc
  ELSE IF ~Head(items).canonical_url.present
       THEN CollectPostsNoBreak(acc, Tail(items), maxP)
       ELSE CollectPostsNoBreak(Append(acc, [url |-> Head(items).canonical_url,
                                             title |-> TitleOf(Head(items))]),
                                Tail(items), maxP)

\* the for loop of listPostsFromArchive over one chunk
RECURSIVE CollectPosts(_, _, _)
CollectPosts(acc, items, maxP) ==
  IF items = <<>> THEN acc
  ELSE IF ~Head(items).canonical_url.present
       THEN CollectPosts(acc, Tail(items), maxP)
       ELSE LET pushed == Append(acc, [url |-> Head(items).canonical_url,
                                       title |-> TitleOf(Head(items))])
            IN IF Len(pushed) >= maxP THEN pushed
               ELSE CollectPosts(pushed, Tail(items), maxP)

\* meta?.id || meta?.post?.id || meta?.post_id || meta?.postId || null
PostIdOf(meta) ==
  IF Truthy(meta.id) THEN meta.id
  ELSE IF Truthy(meta.postDotId) THEN meta.postDotId
  ELSE IF Truthy(meta.post_id) THEN meta.post_id
  ELSE IF Truthy(meta.postId) THEN meta.postId
  ELSE Null

\* getAllCommentsForPostId, after the fetch
CommentsOf(data) ==
  IF data.isArray THEN data.items
  ELSE IF data.comments.present THEN data.comments.list
  ELSE <<>>

\* c.children || c.replies || c.responses || c.thread || c.comments || null
Kids(c) ==
  IF c.children.present THEN c.children
  ELSE IF c.replies.present THEN c.replies
  ELSE IF c.responses.present THEN c.responses
  ELSE IF c.thread.present THEN c.thread
  ELSE IF c.comments.present THEN c.comments
  ELSE Absent

\* the faulty variant: only the first child is pushed
KidsToPushFirstOnly(c) ==
  LET kids == Kids(c)
  IN IF kids.present /\ Len(kids.list) > 0 THEN <<kids.list[1]>> ELSE <<>>

\* if (Array.isArray(kids) && kids.length) for (const k of kids) stack.push(k);
KidsToPush(c) ==
  LET kids == Kids(c)
  IN IF kids.present /\ Len(kids.list) > 0 THEN kids.list ELSE <<>>

\* the while loop of flattenComments
RECURSIVE FlattenStack(_, _)
FlattenStack(stack, acc) ==
  IF stack = <<>> THEN acc
  ELSE LET c == stack[Len(stack)]
           rest == SubSeq(stack, 1, Len(stack) - 1)
       IN IF ~c.isObject THEN FlattenStack(rest, acc)
          ELSE FlattenStack(rest \o KidsToPush(c), Append(acc, c))

FlattenComments(list) == FlattenStack(list, <<>>)

\* const stack = Array.isArray(nodeOrList) ? [...nodeOrList] : [nodeOrList];
InitialStack(arg) == IF arg.isArray THEN arg.items ELSE <<arg.node>>

FirstNonEmpty(texts) ==
  IF \E i \in 1..Len(texts) : texts[i] # <<>>
  THEN texts[CHOOSE i \in 1..Len(texts) : texts[i] # <<>> /\ \A j \in 1..(i - 1) : texts[j] = <<>>]
  ELSE <<>>

GetAuthorName(c) ==
  FirstNonEmpty(<<c.u_name, c.u_profile_name, c.user_name, c.commenter_name, c.name>>)

GetAuthorHandle(c) == FirstNonEmpty(<<c.u_handle, c.u_username, c.u_slug, c.handle>>)

GetBodyText(c) == HtmlToTextPreserveFormatting(FirstNonEmpty(<<c.body_html, c.body, c.text>>))

\* c?.comment_id ?? c?.commentId ?? c?.id ?? null
GetSpecificCommentId(c) ==
  IF c.comment_id # Null THEN c.comment_id
  ELSE IF c.commentId # Null THEN c.commentId
  ELSE c.id

\* the faulty variant: the thread id resolved like the reply id
GetTopLevelCommentIdAsSpecific(c) == GetSpecificCommentId(c)

\* c?.id ?? c?.comment_id ?? c?.commentId ?? null
GetTopLevelCommentId(c) ==
  IF c.id # Null THEN c.id
  ELSE IF c.comment_id # Null THEN c.comment_id
  ELSE c.commentId

\* Number(a ?? b ?? c ?? 0)
GetLikeCount(c) ==
  IF c.reactions_like # Null THEN c.reactions_like
  ELSE IF c.like_count # Null THEN c.like_count
  ELSE IF c.likes # Null THEN c.likes
  ELSE 0

\* getCommentDateMs for a date given as a string: c.date stands for what
\* Date.parse yields for it, Unparsable for NaN
Unparsable == -2
GetCommentDateMs(c) ==
  IF ~Truthy(c.date) \/ c.date = Unparsable THEN Null ELSE c.date

\* buildCommentPageUrl
NoLink == [post |-> NoUrl, comment |-> Null]
BuildCommentPageUrl(postUrl, commentId) ==
  IF ~Truthy(commentId) THEN NoLink ELSE [post |-> postUrl, comment |-> commentId]

\* name === wantedName || (handle && handle === wantedHandle)
\* faulty variant: the display name is lower-cased like the handle
MatchesAnyCase(c, wName, wHandle) ==
  LET name == NormalizeTextOneLine(GetAuthorName(c))
      handle == StripAt(ToLowerCase(NormalizeTextOneLine(GetAuthorHandle(c))))
  IN ToLowerCase(name) = ToLowerCase(wName) \/ (handle # <<>> /\ handle = wHandle)

MatchesFor(c, wName, wHandle) ==
  LET name == NormalizeTextOneLine(GetAuthorName(c))
      handle == StripAt(ToLowerCase(NormalizeTextOneLine(GetAuthorHandle(c))))
  IN name = wName \/ (handle # <<>> /\ handle = wHandle)

Matches(c) == MatchesFor(c, wantedName, wantedHandle)

\* the object pushed to out for one matching comment
RecordOf(post, postId, c) ==
  [ postUrl |-> post.url, postTitle |-> post.title, postId |-> postId,
    commentId |-> GetSpecificCommentId(c),
    topLevelCommentId |-> GetTopLevelCommentId(c),
    commentUrl |-> BuildCommentPageUrl(post.url, GetSpecificCommentId(c)),
    topLevelCommentUrl |-> BuildCommentPageUrl(post.url, GetTopLevelCommentId(c)),
    commentDateMs |-> GetCommentDateMs(c),
    likes |-> GetLikeCount(c),
    text |-> GetBodyText(c) ]

\* the faulty variant: the loop without if (!text) continue
RECURSIVE RecordsOfKeepingBlank(_, _, _)
RecordsOfKeepingBlank(post, postId, comments) ==
  IF comments = <<>> THEN <<>>
  ELSE LET c == Head(comments)
           rest == RecordsOfKeepingBlank(post, postId, Tail(comments))
       IN IF Matches(c)
          THEN <<RecordOf(post, postId, c)>> \o rest
          ELSE rest

\* the for loop of crawl over the flattened comments of one post
RECURSIVE RecordsOf(_, _, _)
RecordsOf(post, postId, comments) ==
  IF comments = <<>> THEN <<>>
  ELSE LET c == Head(comments)
           rest == RecordsOf(post, postId, Tail(comments))
       IN IF Matches(c) /\ GetBodyText(c) # <<>>
          THEN <<RecordOf(post, postId, c)>> \o rest
          ELSE rest

\* `${r.postUrl}||${r.commentId || ""}||${(r.text || "").slice(0, 200)}`
DedupeKey(rec) ==
  <<rec.postUrl, IF Truthy(rec.commentId) THEN rec.commentId ELSE Null,
    Slice(rec.text, SnippetLen)>>

\* faulty variant: the de-dupe loop without seen.add(k)
RECURSIVE DedupeFromNoAdd(_, _, _)
DedupeFromNoAdd(recs, seenKeys, acc) ==
  IF recs = <<>> THEN acc
  ELSE IF DedupeKey(Head(recs)) \in seenKeys
       THEN DedupeFromNoAdd(Tail(recs), seenKeys, acc)
       ELSE DedupeFromNoAdd(Tail(recs), seenKeys, Append(acc, Head(recs)))

\* the de-dupe loop of crawl
RECURSIVE DedupeFrom(_, _, _)
DedupeFrom(recs, seenKeys, acc) ==
  IF recs = <<>> THEN acc
  ELSE IF DedupeKey(Head(recs)) \in seenKeys
       THEN DedupeFrom(Tail(recs), seenKeys, acc)
       ELSE DedupeFrom(Tail(recs), seenKeys \cup {DedupeKey(Head(recs))},
                       Append(acc, Head(recs)))

Dedupe(recs) == DedupeFrom(recs, {}, <<>>)

\* faulty variant: the rows of the run are appended to the rows already at OUT_PATH
RowsWrittenAppending(existing, fetched) == existing \o Dedupe(fetched)

\* payload.rows of a run that finds `existing` at OUT_PATH and has collected
\* `fetched` in out: crawl never reads OUT_PATH, rows is the de-duped out
RowsWritten(existing, fetched) == Dedupe(fetched)

\* the payload written to OUT_PATH
NoFile == [exists |-> FALSE, count |-> 0, rows |-> <<>>]
Payload(rows) == [exists |-> TRUE, count |-> Len(rows), rows |-> rows]

(***************************************************************************)
(* State.                                                                  *)
(***************************************************************************)
VARIABLES
  fpc,          \* fetchWithRetry: "idle", "loop", "awaiting", "sleep", "returned", "thrown"
  attempt,      \* fetchWithRetry: the loop variable
  r,            \* fetchWithRetry: the response of the current iteration
  waitMs,       \* fetchWithRetry: the delay of the sleep in progress
  ferr,         \* fetchWithRetry: the error thrown
  nreq,         \* history: requests issued by the current call
  nwaits,       \* history: sleeps completed by the current call
  seen,         \* history: classes of the responses that led to a retry
  maxPosts,     \* MAX_POSTS
  lpc,          \* listPostsFromArchive: "idle", "loop", "fetch", "pause", "returned", "failed"
  offset,       \* listPostsFromArchive: offset
  posts,        \* listPostsFromArchive: posts, then crawl's posts
  chunks,       \* history: the chunks the feed has answered with, in order
  pageReqs,     \* history: page requests issued
  pc,           \* crawl: "idle", "start", "listing", "for", "lookup", "comments", "pause", "done", "exit1"
  idx,          \* crawl: idx
  postId,       \* crawl: postId of the post being scanned
  out,          \* crawl: out
  file,         \* the file at OUT_PATH
  runs,         \* history: the runs of the process that have ended
  sameAsLast,   \* history: the last run collected in out what the run before it had
  probe,        \* a helper function called on its own: its name, arguments and result
  skips,        \* history: the posts (by idx) whose scan ended in the catch
  unresolved,   \* history: the posts (by idx) whose lookup yielded no id
  caught,       \* crawl: the error in the catch block
  lastUnpaused, \* history: the last request issued since the last politePause
  exitErr       \* the error that reached crawl().catch

\* no helper function called on its own
NoProbe == [fn |-> "none"]

fetchVars == <<fpc, attempt, r, waitMs, ferr, nreq, nwaits, seen>>

listVars == <<maxPosts, lpc, offset, posts, chunks, pageReqs>>

crawlVars == <<pc, idx, postId, out, file, runs, sameAsLast, probe, skips, unresolved, caught, lastUnpaused, exitErr>>

vars == <<fetchVars, listVars, crawlVars>>

(***************************************************************************)
(* fetchWithRetry.                                                         *)
(***************************************************************************)
NoErr == [name |-> "none", status |-> 0, snippet |-> <<>>]

\* faulty variant: the whole body in the message, no slice
HttpErrorWholeBody(st, text) == [name |-> "HTTP", status |-> st, snippet |-> text]

\* new Error(`HTTP ${r.status} (${kind}) for ${url}${text ? ` — ${text.slice(0, 200)}` : ""}`)
HttpError(st, text) == [name |-> "HTTP", status |-> st, snippet |-> Slice(text, SnippetLen)]
RetriesExhausted == [name |-> "RetriesExhausted", status |-> 0, snippet |-> <<>>]

\* r.ok
IsOk(resp) == resp.status >= 200 /\ resp.status <= 299

IsRateLimited(resp) == resp.status = 429

\* faulty variant: the 5xx branch without its attempt < MAX_RETRIES guard
IsRetryableServerErrorUnguarded(resp, att) ==
  resp.status >= 500 /\ resp.status < 600

\* r.status >= 500 && r.status < 600 && attempt < MAX_RETRIES
IsRetryableServerError(resp, att) ==
  resp.status >= 500 /\ resp.status < 600 /\ att < MAX_RETRIES

\* retryAfter && /^\d+$/.test(retryAfter) ? Number(retryAfter) * 1000 : 0
RetryAfterMs(h) ==
  IF h.present /\ h.chars # <<>> /\ IsDigitString(h.chars)
  THEN ToNumber(h.chars) * 1000
  ELSE 0

\* faulty variant: exponential backoff without the cap
Backoff429Uncapped(att) == BackoffBase429 * Pow2(att)

\* Math.min(120_000, 1000 * Math.pow(2, attempt))
Backoff429(att) == Min(BackoffCap429, BackoffBase429 * Pow2(att))

\* Math.max(retryAfterMs, backoffMs) + jitterMs
Wait429(h, att, jitter) == Max(RetryAfterMs(h), Backoff429(att)) + jitter

\* Math.min(60_000, 800 * Math.pow(2, attempt)) + jitterMs
Wait5xx(att, jitter) == Min(BackoffCap5xx, BackoffBase5xx * Pow2(att)) + jitter

\* faulty variant: one iteration too many
MayAttemptOneMore(att) == att <= MAX_RETRIES + 1

\* the loop condition attempt <= MAX_RETRIES
MayAttempt(att) == att <= MAX_RETRIES

\* for (...; attempt <= MAX_RETRIES; ...) { const r = await fetch(url, ...)
FRequest ==
  /\ fpc = "loop"
  /\ MayAttempt(attempt)
  /\ fpc' = "awaiting"
  /\ nreq' = nreq + 1
  /\ UNCHANGED <<attempt, r, waitMs, ferr, nwaits, seen>>
  /\ UNCHANGED <<listVars, crawlVars>>

\* if (r.ok) return r;
FReturnOk ==
  /\ fpc = "awaiting"
  /\ \E resp \in Responses :
       /\ IsOk(resp)
       /\ r' = resp
  /\ fpc' = "returned"
  /\ UNCHANGED <<attempt, waitMs, ferr, nreq, nwaits, seen>>
  /\ UNCHANGED <<listVars, crawlVars>>

\* the faulty variant: the backoff sleep is started but not awaited
FRateLimitedNoAwait ==
  /\ fpc = "awaiting"
  /\ \E resp \in Responses, jitter \in Jitters429 :
       /\ ~IsOk(resp)
       /\ IsRateLimited(resp)
       /\ r' = resp
       /\ waitMs' = Wait429(resp.retryAfter, attempt, jitter)
  /\ attempt' = attempt + 1
  /\ fpc' = "loop"
  /\ seen' = seen \cup {"429"}
  /\ UNCHANGED <<ferr, nreq, nwaits>>
  /\ UNCHANGED <<listVars, crawlVars>>

\* if (r.status === 429) { ... await sleep(waitMs); continue; }
FRateLimited ==
  /\ fpc = "awaiting"
  /\ \E resp \in Responses, jitter \in Jitters429 :
       /\ ~IsOk(resp)
       /\ IsRateLimited(resp)
       /\ r' = resp
       /\ waitMs' = Wait429(resp.retryAfter, attempt, jitter)
  /\ fpc' = "sleep"
  /\ seen' = seen \cup {"429"}
  /\ UNCHANGED <<attempt, ferr, nreq, nwaits>>
  /\ UNCHANGED <<listVars, crawlVars>>

\* if (r.status >= 500 && r.status < 600 && attempt < MAX_RETRIES) { ... continue; }
FServerError ==
  /\ fpc = "awaiting"
  /\ \E resp \in Responses, jitter \in Jitters5xx :
       /\ ~IsOk(resp)
       /\ ~IsRateLimited(resp)
       /\ IsRetryableServerError(resp, attempt)
       /\ r' = resp
       /\ waitMs' = Wait5xx(attempt, jitter)
  /\ fpc' = "sleep"
  /\ seen' = seen \cup {"5xx"}
  /\ UNCHANGED <<attempt, ferr, nreq, nwaits>>
  /\ UNCHANGED <<listVars, crawlVars>>

\* const text = await r.text().catch(() => ""); throw new Error(`HTTP ${r.status} ...`)
FFail ==
  /\ fpc = "awaiting"
  /\ \E resp \in Responses :
       /\ ~IsOk(resp)
       /\ ~IsRateLimited(resp)
       /\ ~IsRetryableServerError(resp, attempt)
       /\ r' = resp
       /\ \E text \in {resp.text, <<>>} : ferr' = HttpError(resp.status, text)
  /\ fpc' = "thrown"
  /\ UNCHANGED <<attempt, waitMs, nreq, nwaits, seen>>
  /\ UNCHANGED <<listVars, crawlVars>>

\* the sleep ends; continue: attempt++
FWake ==
  /\ fpc = "sleep"
  /\ attempt' = attempt + 1
  /\ r' = NoResp
  /\ waitMs' = 0
  /\ nwaits' = nwaits + 1
  /\ fpc' = "loop"
  /\ UNCHANGED <<ferr, nreq, seen>>
  /\ UNCHANGED <<listVars, crawlVars>>

\* the loop ends: throw new Error(`Retries exhausted ...`)
FExhausted ==
  /\ fpc = "loop"
  /\ ~MayAttempt(attempt)
  /\ ferr' = RetriesExhausted
  /\ fpc' = "thrown"
  /\ UNCHANGED <<attempt, r, waitMs, nreq, nwaits, seen>>
  /\ UNCHANGED <<listVars, crawlVars>>

FetchStep == FRequest \/ FReturnOk \/ FRateLimited \/ FServerError \/ FFail \/ FWake \/ FExhausted

\* no call of fetchWithRetry in progress
FetchIdle ==
  /\ fpc = "idle"
  /\ attempt = 0
  /\ r = NoResp
  /\ waitMs = 0
  /\ ferr = NoErr
  /\ nreq = 0
  /\ nwaits = 0
  /\ seen = {}

\* no crawl in progress
CrawlIdle ==
  /\ maxPosts = 1
  /\ lpc = "idle"
  /\ offset = 0
  /\ posts = <<>>
  /\ chunks = <<>>
  /\ pageReqs = 0
  /\ pc = "idle"
  /\ idx = 0
  /\ postId = Null
  /\ out = <<>>
  /\ file = NoFile
  /\ skips = {}
  /\ unresolved = {}
  /\ runs = 0
  /\ sameAsLast = FALSE
  /\ probe = NoProbe
  /\ caught = "none"
  /\ lastUnpaused = "none"
  /\ exitErr = "none"

\* one call of fetchWithRetry, entered
FetchInit ==
  /\ fpc = "loop"
  /\ attempt = 0
  /\ r = NoResp
  /\ waitMs = 0
  /\ ferr = NoErr
  /\ nreq = 0
  /\ nwaits = 0
  /\ seen = {}
  /\ CrawlIdle

FetchNext == FetchStep

FetchSpec == FetchInit /\ [][FetchNext]_vars

(***************************************************************************)
(* listPostsFromArchive.  Each await fetchJson(url) is one step that ends  *)
(* with the parsed JSON or with one of the errors fetchJson can throw.     *)
(* With exact = TRUE the history variables are kept and the number of page *)
(* requests is capped by MaxPageRequests; with exact = FALSE no history is *)
(* kept and offset is pinned at MaxOffset once it gets there, which leaves *)
(* a finite state space for runs of any length.                            *)
(***************************************************************************)
MaxOffset == 4

\* the faulty variant: the offset advances by the limit of the request
OffsetAfterByLimit(exact, off, n) ==
  IF exact THEN off + PageLimit ELSE Min(off + PageLimit, MaxOffset)

\* offset += chunk.length
OffsetAfter(exact, off, n) == IF exact THEN off + n ELSE Min(off + n, MaxOffset)

\* the while condition posts.length < maxPosts
WantsMore(ps, maxP) == Len(ps) < maxP

\* while (posts.length < maxPosts) { ... const chunk = await fetchJson(url)
LRequestPageG(exact) ==
  /\ pc = "listing"
  /\ lpc = "loop"
  /\ WantsMore(posts, maxPosts)
  /\ exact => pageReqs < MaxPageRequests
  /\ lpc' = "fetch"
  /\ pageReqs' = IF exact THEN pageReqs + 1 ELSE pageReqs
  /\ lastUnpaused' = "page"
  /\ UNCHANGED <<maxPosts, offset, posts, chunks>>
  /\ UNCHANGED <<pc, idx, postId, out, file, runs, sameAsLast, probe, skips, unresolved, caught, exitErr>>
  /\ UNCHANGED fetchVars

\* the while condition fails: return posts
LReturnFull ==
  /\ pc = "listing"
  /\ lpc = "loop"
  /\ ~WantsMore(posts, maxPosts)
  /\ lpc' = "returned"
  /\ UNCHANGED <<maxPosts, offset, posts, chunks, pageReqs>>
  /\ UNCHANGED <<crawlVars, fetchVars>>

\* faulty variant: an empty chunk does not end the loop
EndsPagingNonArrayOnly(page) == ~page.isArray

\* the chunk ends the loop: !Array.isArray(chunk) || chunk.length === 0
EndsPaging(page) == ~page.isArray \/ Len(page.items) = 0

\* if (!Array.isArray(chunk) || chunk.length === 0) break; ... return posts
LBreakG(exact) ==
  /\ pc = "listing"
  /\ lpc = "fetch"
  /\ \E page \in PagePayloads :
       /\ EndsPaging(page)
       /\ chunks' = IF exact THEN Append(chunks, page) ELSE chunks
  /\ lpc' = "returned"
  /\ UNCHANGED <<maxPosts, offset, posts, pageReqs>>
  /\ UNCHANGED <<crawlVars, fetchVars>>

\* for (const item of chunk) { ... } offset += chunk.length; await politePause(SLEEP_MS)
LCollectG(exact) ==
  /\ pc = "listing"
  /\ lpc = "fetch"
  /\ \E page \in PagePayloads :
       /\ ~EndsPaging(page)
       /\ posts' = CollectPosts(posts, page.items, maxPosts)
       /\ offset' = OffsetAfter(exact, offset, Len(page.items))
       /\ chunks' = IF exact THEN Append(chunks, page) ELSE chunks
  /\ lpc' = "pause"
  /\ UNCHANGED <<maxPosts, pageReqs>>
  /\ UNCHANGED <<crawlVars, fetchVars>>

\* fetchJson throws in listPostsFromArchive: nothing catches it before
\* crawl().catch((e) => { console.error(e); process.exit(1); })
LFetchFails ==
  /\ pc = "listing"
  /\ lpc = "fetch"
  /\ \E e \in FetchJsonErrors : exitErr' = e
  /\ lpc' = "failed"
  /\ pc' = "exit1"
  /\ UNCHANGED <<maxPosts, offset, posts, chunks, pageReqs>>
  /\ runs' = runs + 1
  /\ sameAsLast' = sameAsLast
  /\ probe' = probe
  /\ UNCHANGED <<idx, postId, out, file, skips, unresolved, caught, lastUnpaused>>
  /\ UNCHANGED fetchVars

\* the politePause of the lister ends
LPause ==
  /\ pc = "listing"
  /\ lpc = "pause"
  /\ lpc' = "loop"
  /\ lastUnpaused' = "none"
  /\ UNCHANGED <<maxPosts, offset, posts, chunks, pageReqs>>
  /\ UNCHANGED <<pc, idx, postId, out, file, runs, sameAsLast, probe, skips, unresolved, caught, exitErr>>
  /\ UNCHANGED fetchVars

LRequestPage == LRequestPageG(TRUE)
LBreak == LBreakG(TRUE)
LCollect == LCollectG(TRUE)

ListStep == LRequestPage \/ LReturnFull \/ LBreak \/ LCollect \/ LFetchFails \/ LPause

ListMaxPosts == {1, 2, 14, 100}

\* listPostsFromArchive(SUBSTACK_URL, maxPosts), entered
ListInit ==
  /\ FetchIdle
  /\ maxPosts \in ListMaxPosts
  /\ lpc = "loop"
  /\ offset = 0
  /\ posts = <<>>
  /\ chunks = <<>>
  /\ pageReqs = 0
  /\ pc = "listing"
  /\ idx = 0
  /\ postId = Null
  /\ out = <<>>
  /\ file = NoFile
  /\ skips = {}
  /\ unresolved = {}
  /\ runs = 0
  /\ sameAsLast = FALSE
  /\ probe = NoProbe
  /\ caught = "none"
  /\ lastUnpaused = "none"
  /\ exitErr = "none"

ListNext == ListStep

ListSpec == ListInit /\ [][ListNext]_vars

(***************************************************************************)
(* The lister over runs of any length, with every step eventually taken:   *)
(* every request is answered and every pause ends.                         *)
(***************************************************************************)
LiveRequestPage == LRequestPageG(FALSE)
LiveBreak == LBreakG(FALSE)
LiveCollect == LCollectG(FALSE)

LiveMaxPosts == {1, 2}

LiveInit ==
  /\ ListInit
  /\ maxPosts \in LiveMaxPosts

LiveNext ==
  LiveRequestPage \/ LReturnFull \/ LiveBreak \/ LiveCollect \/ LFetchFails \/ LPause

LiveSpec == LiveInit /\ [][LiveNext]_vars /\ WF_vars(LiveNext)

(***************************************************************************)
(* crawl.                                                                  *)
(***************************************************************************)
\* const posts = await listPostsFromArchive(SUBSTACK_URL, MAX_POSTS)
CStart ==
  /\ pc = "start"
  /\ pc' = "listing"
  /\ lpc' = "loop"
  /\ offset' = 0
  /\ posts' = <<>>
  /\ chunks' = <<>>
  /\ pageReqs' = 0
  /\ UNCHANGED <<maxPosts, idx, postId, out, file, runs, sameAsLast, probe, skips, unresolved, caught, lastUnpaused, exitErr>>
  /\ UNCHANGED fetchVars

\* listPostsFromArchive has returned: const out = []; let idx = 0
CListed ==
  /\ pc = "listing"
  /\ lpc = "returned"
  /\ pc' = "for"
  /\ lpc' = "idle"
  /\ offset' = 0
  /\ chunks' = <<>>
  /\ pageReqs' = 0
  /\ idx' = 0
  /\ out' = <<>>
  /\ UNCHANGED <<maxPosts, posts, postId, file, runs, sameAsLast, probe, skips, unresolved, caught, lastUnpaused, exitErr>>
  /\ UNCHANGED fetchVars

\* for (const post of posts) { idx++; ... if (!slug) continue;
CSkipNoSlug ==
  /\ pc = "for"
  /\ idx < Len(posts)
  /\ SlugFromPostUrl(posts[idx + 1].url) = ""
  /\ idx' = idx + 1
  /\ UNCHANGED <<pc, postId, out, file, runs, sameAsLast, probe, skips, unresolved, caught, lastUnpaused, exitErr>>
  /\ UNCHANGED <<listVars, fetchVars>>

\* for (const post of posts) { idx++; ... try { const postId = await getPostIdFromSlug(slug)
CRequestPostId ==
  /\ pc = "for"
  /\ idx < Len(posts)
  /\ SlugFromPostUrl(posts[idx + 1].url) # ""
  /\ idx' = idx + 1
  /\ pc' = "lookup"
  /\ lastUnpaused' = "lookup"
  /\ UNCHANGED <<postId, out, file, runs, sameAsLast, probe, skips, unresolved, caught, exitErr>>
  /\ UNCHANGED <<listVars, fetchVars>>

\* faulty variant: the loop body without `if (!postId) continue;`
AfterNoPostIdFallsThrough == "comments"

\* where the loop body goes when the lookup yields no id: if (!postId) continue;
AfterNoPostId == "for"

\* if (!postId) continue;
CSkipNoPostId ==
  /\ pc = "lookup"
  /\ \E meta \in MetaPayloads : ~Truthy(PostIdOf(meta))
  /\ pc' = AfterNoPostId
  /\ unresolved' = unresolved \cup {idx}
  /\ UNCHANGED <<idx, postId, out, file, runs, sameAsLast, probe, skips, caught, lastUnpaused, exitErr>>
  /\ UNCHANGED <<listVars, fetchVars>>

\* const commentsTree = await getAllCommentsForPostId(postId)
CRequestComments ==
  /\ pc = "lookup"
  /\ \E meta \in MetaPayloads :
       /\ Truthy(PostIdOf(meta))
       /\ postId' = PostIdOf(meta)
  /\ pc' = "comments"
  /\ lastUnpaused' = "comments"
  /\ UNCHANGED <<idx, out, file, runs, sameAsLast, probe, skips, unresolved, caught, exitErr>>
  /\ UNCHANGED <<listVars, fetchVars>>

\* faulty variant: no try/catch around the scan of one post
AfterCatchPropagates == "exit1"

\* where an error thrown inside the try goes: } catch (e) { console.log(...) }
AfterCatch == "pause"

\* getPostIdFromSlug throws: catch (e) { console.log(`  Skip due to error ...`) }
CPostIdFails ==
  /\ pc = "lookup"
  /\ \E e \in FetchJsonErrors : caught' = e
  /\ skips' = skips \cup {idx}
  /\ pc' = AfterCatch
  /\ UNCHANGED <<idx, postId, out, file, runs, sameAsLast, probe, unresolved, lastUnpaused, exitErr>>
  /\ UNCHANGED <<listVars, fetchVars>>

\* faulty variant: the dataset is also written after each scanned post
CScanCommentsAndWrite ==
  /\ pc = "comments"
  /\ \E data \in CommentPayloads :
       out' = out \o RecordsOf(posts[idx], postId, FlattenComments(CommentsOf(data)))
  /\ file' = Payload(Dedupe(out'))
  /\ runs' = runs
  /\ sameAsLast' = sameAsLast
  /\ probe' = probe
  /\ pc' = "pause"
  /\ UNCHANGED <<idx, postId, skips, unresolved, caught, lastUnpaused, exitErr>>
  /\ UNCHANGED <<listVars, fetchVars>>

\* flattenComments(commentsTree); for (const c of comments) { ... out.push(...) }
CScanComments ==
  /\ pc = "comments"
  /\ \E data \in CommentPayloads :
       out' = out \o RecordsOf(posts[idx], postId, FlattenComments(CommentsOf(data)))
  /\ pc' = "pause"
  /\ UNCHANGED <<idx, postId, file, runs, sameAsLast, probe, skips, unresolved, caught, lastUnpaused, exitErr>>
  /\ UNCHANGED <<listVars, fetchVars>>

\* getAllCommentsForPostId throws: catch (e) { console.log(`  Skip due to error ...`) }
CCommentsFail ==
  /\ pc = "comments"
  /\ \E e \in FetchJsonErrors : caught' = e
  /\ skips' = skips \cup {idx}
  /\ pc' = AfterCatch
  /\ UNCHANGED <<idx, postId, out, file, runs, sameAsLast, probe, unresolved, lastUnpaused, exitErr>>
  /\ UNCHANGED <<listVars, fetchVars>>

\* await politePause(SLEEP_MS) at the end of the loop body
CPause ==
  /\ pc = "pause"
  /\ pc' = "for"
  /\ postId' = Null
  /\ caught' = "none"
  /\ lastUnpaused' = "none"
  /\ UNCHANGED <<idx, out, file, runs, sameAsLast, probe, skips, unresolved, exitErr>>
  /\ UNCHANGED <<listVars, fetchVars>>

\* the loop is over: de-dupe, fs.writeFileSync(OUT_PATH, JSON.stringify(payload, ...))
CWrite ==
  /\ pc = "for"
  /\ idx = Len(posts)
  /\ file' = Payload(RowsWritten(file.rows, out))
  /\ runs' = runs + 1
  /\ sameAsLast' = sameAsLast
  /\ probe' = probe
  /\ pc' = "done"
  /\ UNCHANGED <<idx, postId, out, skips, unresolved, caught, lastUnpaused, exitErr>>
  /\ UNCHANGED <<listVars, fetchVars>>

CrawlStep ==
  CStart \/ CListed \/ CSkipNoSlug \/ CRequestPostId \/ CSkipNoPostId \/ CRequestComments
    \/ CPostIdFails \/ CScanComments \/ CCommentsFail \/ CPause \/ CWrite

\* the dataset a previous run has left at OUT_PATH
OldRecord ==
  [ postUrl |-> UrlA, postTitle |-> "Post A", postId |-> 7, commentId |-> 5,
    topLevelCommentId |-> 5, commentUrl |-> BuildCommentPageUrl(UrlA, 5),
    topLevelCommentUrl |-> BuildCommentPageUrl(UrlA, 5), commentDateMs |-> Null,
    likes |-> 1, text |-> <<"h", "i", " ", "x">> ]

PreviousFiles == {NoFile, Payload(<<OldRecord>>)}

RunMaxPosts == {1, 2, 3}

\* the process starts: crawl() is called
Init ==
  /\ FetchIdle
  /\ maxPosts \in RunMaxPosts
  /\ lpc = "idle"
  /\ offset = 0
  /\ posts = <<>>
  /\ chunks = <<>>
  /\ pageReqs = 0
  /\ pc = "start"
  /\ idx = 0
  /\ postId = Null
  /\ out = <<>>
  /\ file \in PreviousFiles
  /\ skips = {}
  /\ unresolved = {}
  /\ runs = 0
  /\ sameAsLast = FALSE
  /\ probe = NoProbe
  /\ caught = "none"
  /\ lastUnpaused = "none"
  /\ exitErr = "none"

Next ==
  \/ CStart \/ LRequestPage \/ LReturnFull \/ LBreak \/ LCollect \/ LFetchFails \/ LPause
  \/ CListed \/ CSkipNoSlug \/ CRequestPostId \/ CSkipNoPostId \/ CRequestComments
  \/ CPostIdFails \/ CScanComments \/ CCommentsFail \/ CPause \/ CWrite

Spec == Init /\ [][Next]_vars

(***************************************************************************)
(* Successive runs of the process, one step per run: what a run leaves at  *)
(* OUT_PATH given what it found there and the records it collected in out. *)
(***************************************************************************)
MaxOut == 3

MaxRuns == 3

\* a record as crawl pushes it for a root comment of the target on post A
RecordOnA(commentId, likes, text) ==
  [ postUrl |-> UrlA, postTitle |-> "Post A", postId |-> 7, commentId |-> commentId,
    topLevelCommentId |-> commentId,
    commentUrl |-> BuildCommentPageUrl(UrlA, commentId),
    topLevelCommentUrl |-> BuildCommentPageUrl(UrlA, commentId),
    commentDateMs |-> Null, likes |-> likes, text |-> text ]

\* two records that differ in their like count only, and two whose texts
\* agree on the first SnippetLen characters only
LikedOnce == RecordOnA(5, 1, <<"h", "i", " ", "x">>)
LikedTwice == RecordOnA(5, 2, <<"h", "i", " ", "x">>)
LongText == RecordOnA(6, 0, TextOfLen(SnippetLen) \o <<"x">>)
LongTextEdited == RecordOnA(6, 0, TextOfLen(SnippetLen) \o <<"y">>)

StoreRecords == {LikedOnce, LikedTwice, LongText, LongTextEdited}

RECURSIVE SeqsUpTo(_, _)
SeqsUpTo(S, n) ==
  IF n = 0 THEN {<<>>}
  ELSE LET shorter == SeqsUpTo(S, n - 1)
       IN shorter \cup {Append(q, x) : q \in shorter, x \in S}

\* what out can hold when the for loop of a run is over
StoreOuts == SeqsUpTo(StoreRecords, MaxOut)

StoreFiles == {NoFile, Payload(<<OldRecord>>), Payload(<<LikedTwice, LongTextEdited>>)}

\* a run of crawl() that reaches the end: out holds `fetched`, the payload is written
SRun ==
  /\ pc \in {"start", "done", "exit1"}
  /\ runs < MaxRuns
  /\ \E fetched \in StoreOuts :
       /\ out' = fetched
       /\ sameAsLast' = (pc = "done" /\ fetched = out)
       /\ file' = Payload(RowsWritten(file.rows, fetched))
  /\ probe' = probe
  /\ runs' = runs + 1
  /\ pc' = "done"
  /\ exitErr' = "none"
  /\ UNCHANGED <<idx, postId, skips, unresolved, caught, lastUnpaused>>
  /\ UNCHANGED <<listVars, fetchVars>>

\* a run of crawl() that ends in crawl().catch: process.exit(1)
SRunFails ==
  /\ pc \in {"start", "done", "exit1"}
  /\ runs < MaxRuns
  /\ pc' = "exit1"
  /\ runs' = runs + 1
  /\ sameAsLast' = FALSE
  /\ probe' = probe
  /\ out' = <<>>
  /\ \E e \in FetchJsonErrors : exitErr' = e
  /\ UNCHANGED <<idx, postId, file, skips, unresolved, caught, lastUnpaused>>
  /\ UNCHANGED <<listVars, fetchVars>>

StoreInit ==
  /\ FetchIdle
  /\ maxPosts = 1
  /\ lpc = "idle"
  /\ offset = 0
  /\ posts = <<>>
  /\ chunks = <<>>
  /\ pageReqs = 0
  /\ pc = "start"
  /\ idx = 0
  /\ postId = Null
  /\ out = <<>>
  /\ file \in StoreFiles
  /\ skips = {}
  /\ unresolved = {}
  /\ runs = 0
  /\ sameAsLast = FALSE
  /\ probe = NoProbe
  /\ caught = "none"
  /\ lastUnpaused = "none"
  /\ exitErr = "none"

StoreNext == SRun \/ SRunFails

StoreSpec == StoreInit /\ [][StoreNext]_vars

(***************************************************************************)
(* The helper functions called on their own: the arguments are drawn in    *)
(* the initial state, one step applies the function.                       *)
(***************************************************************************)
\* no fetch, no listing and no crawl in progress
ProcessIdle ==
  /\ FetchIdle
  /\ maxPosts = 1
  /\ lpc = "idle"
  /\ offset = 0
  /\ posts = <<>>
  /\ chunks = <<>>
  /\ pageReqs = 0
  /\ pc = "idle"
  /\ idx = 0
  /\ postId = Null
  /\ out = <<>>
  /\ file = NoFile
  /\ runs = 0
  /\ sameAsLast = FALSE
  /\ skips = {}
  /\ unresolved = {}
  /\ caught = "none"
  /\ lastUnpaused = "none"
  /\ exitErr = "none"

ProcessVars ==
  <<fetchVars, listVars, pc, idx, postId, out, file, runs, sameAsLast, skips, unresolved,
    caught, lastUnpaused, exitErr>>

Jane == <<"J", "a", "n", "e">>

\* values of USERNAME
MatchTargets == {Jane, <<" ">> \o Jane \o <<" ">>, <<"@">> \o Jane, <<"@">>}

\* display names and handles of comment authors
MatchNames ==
  { <<>>, Jane, <<"j", "a", "n", "e">>, <<" ">> \o Jane \o <<"\t", " ">>,
    <<"J", "a", " ", "n", "e">>, <<"@">> }
MatchHandles ==
  { <<>>, <<"@">> \o Jane, <<"j", "a", "n", "e">>, <<"J", "A", "N", "E">>,
    <<" ", "@">> \o Jane \o <<" ">>, <<"@">>, <<"b", "o", "b">> }

\* a comment whose author has this display name and this handle
CommentBy(name, handle) == Node(name, <<>>, handle, Hello, 1, Null, 0, Absent, Absent)

MatchInit ==
  /\ ProcessIdle
  /\ \E raw \in MatchTargets, name \in MatchNames, handle \in MatchHandles :
       probe = [fn |-> "matches", raw |-> raw, name |-> name, handle |-> handle,
                applied |-> FALSE, result |-> FALSE]

\* const matches = name === wantedName || (handle && handle === wantedHandle)
MApply ==
  /\ probe.fn = "matches"
  /\ ~probe.applied
  /\ probe' = [probe EXCEPT !.applied = TRUE,
                            !.result =
                 MatchesFor(CommentBy(probe.name, probe.handle),
                            WantedName(probe.raw), WantedHandle(probe.raw))]
  /\ UNCHANGED ProcessVars

MatchNext == MApply

MatchSpec == MatchInit /\ [][MatchNext]_vars

MaxText == 4

\* comment bodies that hold no markup
PlainBodies == SeqsUpTo({"a", " ", "\t", "\n"}, MaxText)

\* getBodyText on a body without markup: htmlToTextPreserveFormatting(html)
NApplyPlain ==
  /\ probe.fn = "plain"
  /\ ~probe.applied
  /\ ~LooksLikeHtml(probe.body)
  /\ probe' = [probe EXCEPT !.applied = TRUE,
                            !.result = HtmlToTextPreserveFormatting(probe.body)]
  /\ UNCHANGED ProcessVars

\* the parse tree cheerio.load builds for a body with markup: text nodes
\* and elements with their child nodes
TextNode(s) == [tag |-> "#text", text |-> s, kids |-> <<>>]
Elem(tag, kids) == [tag |-> tag, text |-> <<>>, kids |-> kids]

\* $(el).text(): the text of all descendants, in document order
RECURSIVE TextOf(_)
RECURSIVE TextOfAll(_)
TextOfAll(nodes) ==
  IF nodes = <<>> THEN <<>> ELSE TextOf(Head(nodes)) \o TextOfAll(Tail(nodes))
TextOf(n) == IF n.tag = "#text" THEN n.text ELSE TextOfAll(n.kids)

\* root.find("br").replaceWith("\n")
RECURSIVE ReplaceBr(_)
ReplaceBr(nodes) ==
  [i \in 1..Len(nodes) |->
     IF nodes[i].tag = "br" THEN TextNode(<<"\n">>)
     ELSE IF nodes[i].tag = "#text" THEN nodes[i]
     ELSE Elem(nodes[i].tag, ReplaceBr(nodes[i].kids))]

\* l.replace(/[ \t]+/g, " ").trim()
CleanLine(l) == Trim(CollapseRuns(l, {" ", "\t"}))

NonEmpty(l) == l # <<>>

\* raw.split("\n").map(clean).filter((l) => l.length > 0)
CleanLinesOf(raw) ==
  LET lines == SplitLines(RemoveCR(raw))
  IN SelectSeq([i \in 1..Len(lines) |-> CleanLine(lines[i])], NonEmpty)

\* lines.map((l) => `> ${l}`).join("\n")
QuotedBlock(bq) ==
  LET lines == CleanLinesOf(TextOf(bq))
  IN JoinLines([i \in 1..Len(lines) |-> <<">", " ">> \o lines[i]])

\* root.find("blockquote").each(... $(bq).replaceWith(`\n\n${quoted}\n\n`))
RECURSIVE ReplaceQuotes(_)
ReplaceQuotes(nodes) ==
  [i \in 1..Len(nodes) |->
     IF nodes[i].tag = "blockquote"
     THEN TextNode(<<"\n", "\n">> \o QuotedBlock(nodes[i]) \o <<"\n", "\n">>)
     ELSE IF nodes[i].tag = "#text" THEN nodes[i]
     ELSE Elem(nodes[i].tag, ReplaceQuotes(nodes[i].kids))]

BlockTags == {"p", "li", "h1", "h2", "h3", "h4", "h5", "h6"}

\* root.find("p, li, h1, h2, h3, h4, h5, h6"), in document order
RECURSIVE FindBlocks(_)
FindBlocks(nodes) ==
  IF nodes = <<>> THEN <<>>
  ELSE LET n == Head(nodes)
       IN (IF n.tag \in BlockTags THEN <<n>> ELSE <<>>)
            \o (IF n.tag = "#text" THEN <<>> ELSE FindBlocks(n.kids))
            \o FindBlocks(Tail(nodes))

\* out.join("\n\n")
RECURSIVE JoinParagraphs(_)
JoinParagraphs(parts) ==
  IF parts = <<>> THEN <<>>
  ELSE IF Len(parts) = 1 THEN parts[1]
       ELSE parts[1] \o <<"\n", "\n">> \o JoinParagraphs(Tail(parts))

\* text.replace(/[ \t]+\n/g, "\n")
RECURSIVE StripBeforeNewline(_)
StripBeforeNewline(s) ==
  IF s = <<>> THEN <<>>
  ELSE IF Head(s) \in {" ", "\t"}
       THEN LET rest == DropLeading(s, {" ", "\t"})
            IN (IF rest # <<>> /\ Head(rest) = "\n" THEN <<>>
                ELSE SubSeq(s, 1, Len(s) - Len(rest)))
                 \o StripBeforeNewline(rest)
       ELSE <<Head(s)>> \o StripBeforeNewline(Tail(s))

\* the text pushed for one block element: empty lines are filtered out
BlockText(el) == JoinLines(CleanLinesOf(TextOf(el)))

\* the text pushed when there is no block element: empty lines stay
RootText(nodes) ==
  LET lines == SplitLines(RemoveCR(TextOfAll(nodes)))
  IN JoinLines([i \in 1..Len(lines) |-> CleanLine(lines[i])])

\* htmlToTextPreserveFormatting, the branch for a body with markup, given
\* the child nodes of the root as parsed
MarkupToText(body) ==
  LET root == ReplaceQuotes(ReplaceBr(body))
      blocks == FindBlocks(root)
      parts ==
        IF blocks # <<>>
        THEN SelectSeq([i \in 1..Len(blocks) |-> BlockText(blocks[i])], NonEmpty)
        ELSE IF Trim(RootText(root)) # <<>> THEN <<RootText(root)>> ELSE <<>>
  IN Trim(CollapseBlankLines(StripBeforeNewline(JoinParagraphs(parts))))

MaxItems == 2

\* child nodes a body with markup can hold
MarkupItems ==
  { TextNode(<<"r">>),
    Elem("br", <<>>),
    Elem("p", <<TextNode(<<" ", "r", " ", " ", "s">>)>>),
    Elem("h2", <<TextNode(<<"t">>)>>),
    Elem("ul", <<Elem("li", <<TextNode(<<"x">>)>>)>>),
    Elem("blockquote", <<TextNode(<<"q", "1", "\n", " ", "q", "2", " ">>)>>),
    Elem("blockquote", <<Elem("p", <<TextNode(<<"q", "3">>)>>),
                         Elem("p", <<TextNode(<<"q", "4">>)>>)>>) }

\* comment bodies with markup, as parsed
MarkupBodies == SeqsUpTo(MarkupItems, MaxItems) \ {<<>>}

\* getBodyText on a body with markup: htmlToTextPreserveFormatting(html)
NApplyMarkup ==
  /\ probe.fn = "markup"
  /\ ~probe.applied
  /\ probe' = [probe EXCEPT !.applied = TRUE, !.result = MarkupToText(probe.body)]
  /\ UNCHANGED ProcessVars

NormInit ==
  /\ ProcessIdle
  /\ \/ \E body \in PlainBodies :
          probe = [fn |-> "plain", body |-> body, applied |-> FALSE, result |-> <<>>]
     \/ \E body \in MarkupBodies :
          probe = [fn |-> "markup", body |-> body, applied |-> FALSE, result |-> <<>>]

NormNext == NApplyPlain \/ NApplyMarkup

NormSpec == NormInit /\ [][NormNext]_vars

(***************************************************************************)
(* flattenComments, one call, one iteration of its while loop per step.    *)
(***************************************************************************)
MaxTreeItems == 2

\* a comment without replies
Leaf(id) == Node(Bob, <<>>, <<>>, <<"h", "i">>, id, Null, 0, Absent, Absent)

LeafA == Leaf(1)
LeafB == Leaf(2)

\* two replies under "children"
UnderChildren == [Leaf(3) EXCEPT !.children = List(<<LeafA, LeafB>>)]

\* an empty "children" list next to one reply under "replies"
EmptyChildrenWithReplies ==
  [Leaf(4) EXCEPT !.children = List(<<>>), !.replies = List(<<LeafB>>)]

\* a thread under "comments" that holds a null entry and a nested thread
UnderComments ==
  [Leaf(5) EXCEPT !.comments = List(<<NonObject("null"), UnderChildren>>)]

TreeEntries ==
  { LeafA, UnderChildren, EmptyChildrenWithReplies, UnderComments,
    NonObject("null"), NonObject("string"), NonObject("number") }

\* the argument of flattenComments: a list of entries or one bare entry
FlattenArgs ==
  { [isArray |-> TRUE, items |-> l, node |-> NonObject("null")] :
      l \in SeqsUpTo(TreeEntries, MaxTreeItems) }
  \cup { [isArray |-> FALSE, items |-> <<>>, node |-> n] : n \in TreeEntries }

FlattenInit ==
  /\ ProcessIdle
  /\ \E arg \in FlattenArgs :
       probe = [fn |-> "flatten", arg |-> arg, stack |-> InitialStack(arg),
                out |-> <<>>, steps |-> 0, applied |-> FALSE]

\* const c = stack.pop(); if (!c || typeof c !== "object") continue;
TSkip ==
  /\ probe.fn = "flatten"
  /\ ~probe.applied
  /\ probe.stack # <<>>
  /\ ~probe.stack[Len(probe.stack)].isObject
  /\ probe' = [probe EXCEPT !.stack = SubSeq(probe.stack, 1, Len(probe.stack) - 1),
                            !.steps = probe.steps + 1]
  /\ UNCHANGED ProcessVars

\* out.push(c); ...; for (const k of kids) stack.push(k);
TVisit ==
  /\ probe.fn = "flatten"
  /\ ~probe.applied
  /\ probe.stack # <<>>
  /\ LET c == probe.stack[Len(probe.stack)]
     IN /\ c.isObject
        /\ probe' = [probe EXCEPT
                       !.stack = SubSeq(probe.stack, 1, Len(probe.stack) - 1) \o KidsToPush(c),
                       !.out = Append(probe.out, c),
                       !.steps = probe.steps + 1]
  /\ UNCHANGED ProcessVars

\* while (stack.length) ends: return out;
TReturn ==
  /\ probe.fn = "flatten"
  /\ ~probe.applied
  /\ probe.stack = <<>>
  /\ probe' = [probe EXCEPT !.applied = TRUE]
  /\ UNCHANGED ProcessVars

FlattenNext == TSkip \/ TVisit \/ TReturn

FlattenSpec == FlattenInit /\ [][FlattenNext]_vars

(***************************************************************************)
(* The identifiers of one record, one assembly per step.                   *)
(***************************************************************************)
\* what a node can hold under id, comment_id and commentId
IdValues == {Null, 0, 1, 2}

NodeWithIds(id, comment_id, commentId) ==
  [Node(Erusian, <<>>, <<>>, <<"h", "i">>, id, comment_id, 0, Absent, Absent)
     EXCEPT !.commentId = commentId]

IdInit ==
  /\ ProcessIdle
  /\ \E id \in IdValues, comment_id \in IdValues, commentId \in IdValues :
       probe = [fn |-> "ids", id |-> id, comment_id |-> comment_id, commentId |-> commentId,
                applied |-> FALSE,
                result |-> [commentId |-> Null, topLevelCommentId |-> Null]]

\* const commentId = getSpecificCommentId(c); const topLevelCommentId = getTopLevelCommentId(c);
IApply ==
  /\ probe.fn = "ids"
  /\ ~probe.applied
  /\ LET rec == RecordOf([url |-> UrlA, title |-> "Post A"], 7,
                         NodeWithIds(probe.id, probe.comment_id, probe.commentId))
     IN probe' = [probe EXCEPT !.applied = TRUE,
                               !.result = [commentId |-> rec.commentId,
                                           topLevelCommentId |-> rec.topLevelCommentId]]
  /\ UNCHANGED ProcessVars

IdNext == IApply

IdSpec == IdInit /\ [][IdNext]_vars

(***************************************************************************)
(* Claims about fetchWithRetry, checked under FetchSpec.                   *)
(***************************************************************************)
FetchEnded == fpc \in {"returned", "thrown"}

\* every response of the call so far had status 429
AllResponses429 == seen = {"429"} /\ (r = NoResp \/ r.status = 429)

\* every response of the call so far had a 5xx status
AllResponses5xx == seen = {"5xx"} /\ (r = NoResp \/ (r.status >= 500 /\ r.status < 600))

\* C1: one fetchWithRetry call issues at most MAX_RETRIES+1 requests and then
\* ends: it can always take a step until it has returned or thrown, and when
\* every response was 429 it ends with the "Retries exhausted" error after
\* exactly MAX_RETRIES+1 requests.
C1_BoundedRetries ==
  /\ nreq <= MAX_RETRIES + 1
  /\ attempt <= MAX_RETRIES + 1
  /\ nwaits = attempt
  /\ FetchEnded \/ ENABLED FetchNext
  /\ (FetchEnded /\ AllResponses429) =>
       (fpc = "thrown" /\ ferr = RetriesExhausted /\ nreq = MAX_RETRIES + 1)

C1_Witness ==
  /\ fpc = "thrown"
  /\ AllResponses429
  /\ ferr.name = "RetriesExhausted"
  /\ nreq = 11

\* C2 as stated: when every response is 5xx the call makes MAX_RETRIES+1
\* requests and ends with the "Retries exhausted" error.
C2_Original ==
  (FetchEnded /\ AllResponses5xx) =>
    (nreq = MAX_RETRIES + 1 /\ ferr = RetriesExhausted)

\* C2 amended: when every response is 5xx the call makes MAX_RETRIES+1
\* requests, sleeps with capped exponential backoff plus jitter between
\* consecutive attempts, and ends by throwing the HTTP error of the last 5xx
\* response, not the "Retries exhausted" error.
C2_ServerErrorsEndWithHttpError ==
  /\ (FetchEnded /\ AllResponses5xx) =>
       /\ fpc = "thrown"
       /\ nreq = MAX_RETRIES + 1
       /\ nwaits = MAX_RETRIES
       /\ ferr.name = "HTTP"
       /\ r # NoResp
       /\ ferr.status = r.status
  /\ (fpc = "sleep" /\ r.status >= 500 /\ r.status < 600) =>
       /\ attempt < MAX_RETRIES
       /\ \E j \in 0..(JitterSpan5xx - 1) :
            waitMs = Min(BackoffCap5xx, BackoffBase5xx * Pow2(attempt)) + j
  /\ (fpc = "loop" /\ attempt > 0) => nwaits = nreq

C2_Witness ==
  /\ fpc = "thrown"
  /\ AllResponses5xx
  /\ ferr.name = "HTTP"
  /\ ferr.status = 599
  /\ nreq = 11
  /\ nwaits = 10

\* a status that is neither success, 429 nor 5xx
IsOtherStatus(st) == st # 0 /\ ~(st >= 200 /\ st <= 299) /\ st # 429 /\ ~(st >= 500 /\ st < 600)

\* C3: a response whose status is neither success, 429 nor 5xx ends the call
\* at once with an HTTP error: that response was the last request, no sleep
\* follows it, no step of the call is possible any more, and the error holds
\* the status and the first 200 characters (at most) of the body.
C3_OtherStatusFailsAtOnce ==
  (r # NoResp /\ IsOtherStatus(r.status)) =>
    /\ fpc = "thrown"
    /\ waitMs = 0
    /\ nreq = attempt + 1
    /\ nwaits = attempt
    /\ ~ENABLED FetchNext
    /\ ferr.name = "HTTP"
    /\ ferr.status = r.status
    /\ Len(ferr.snippet) <= 200
    /\ Len(ferr.snippet) <= Len(r.text)
    /\ \A i \in 1..Len(ferr.snippet) : ferr.snippet[i] = r.text[i]
    /\ (Len(ferr.snippet) < 200 /\ Len(ferr.snippet) < Len(r.text)) => ferr.snippet = <<>>

C3_Witness ==
  /\ fpc = "thrown"
  /\ r.status = 404
  /\ attempt = 3
  /\ Len(r.text) = 201
  /\ Len(ferr.snippet) = 200
  /\ ferr.status = 404

\* hintMs of C4: 1000 times the Retry-After value when the header is a string
\* of decimal digits only, 0 otherwise
HintMs(h) ==
  IF h.present /\ Len(h.chars) > 0 /\ (\A i \in 1..Len(h.chars) : h.chars[i] \in Digits)
  THEN 1000 * ToNumber(h.chars)
  ELSE 0

\* C4: the sleep after a 429 at attempt n lasts
\* max(hintMs, min(cap, 1000 * 2^n)) + jitter with 0 <= jitter < 800, so it is
\* never shorter than the server's hint nor than the capped backoff.
C4_Wait429 ==
  (fpc = "sleep" /\ r.status = 429) =>
    /\ \E j \in 0..799 :
         waitMs = Max(HintMs(r.retryAfter), Min(BackoffCap429, 1000 * Pow2(attempt))) + j
    /\ waitMs >= HintMs(r.retryAfter)
    /\ waitMs >= Min(BackoffCap429, 1000 * Pow2(attempt))
    /\ (r.retryAfter = Header(<<"3", "0", "0">>)) => waitMs >= 300000
    /\ (r.retryAfter = Header(<<"1", ".", "5">>)) => waitMs < BackoffCap429 + 800

C4_Witness ==
  /\ fpc = "sleep"
  /\ r.status = 429
  /\ r.retryAfter = Header(<<"2">>)
  /\ attempt = 7
  /\ waitMs = 120799

(***************************************************************************)
(* Claims about listPostsFromArchive, checked under ListSpec and LiveSpec. *)
(***************************************************************************)
RECURSIVE AllItems(_)
AllItems(pages) ==
  IF pages = <<>> THEN <<>> ELSE Head(pages).items \o AllItems(Tail(pages))

HasCanonicalUrl(item) == item.canonical_url.present

\* the document references of the items that have a canonical URL, in order
ReferencesOf(items) ==
  LET kept == SelectSeq(items, HasCanonicalUrl)
  IN [i \in 1..Len(kept) |-> [url |-> kept[i].canonical_url, title |-> TitleOf(kept[i])]]

ChunkSizes == [i \in 1..Len(chunks) |-> Len(chunks[i].items)]

LastChunkIsEmptyPage ==
  /\ chunks # <<>>
  /\ chunks[Len(chunks)].isArray
  /\ chunks[Len(chunks)].items = <<>>

\* C6: once the feed has answered k non-empty pages and then an empty page,
\* the lister has returned after exactly k+1 page requests and can issue no
\* further one; when maxPosts exceeds the number of items, it returns every
\* item that has a canonical URL, in feed order.
C6_StopsAfterEmptyPage ==
  LastChunkIsEmptyPage =>
    /\ lpc = "returned"
    /\ pageReqs = Len(chunks)
    /\ \A i \in 1..(Len(chunks) - 1) : Len(chunks[i].items) > 0
    /\ ~ENABLED ListNext
    /\ (maxPosts > Len(AllItems(chunks))) => posts = ReferencesOf(AllItems(chunks))

C6_Witness ==
  /\ lpc = "returned"
  /\ maxPosts = 100
  /\ ChunkSizes = <<12, 12, 0>>
  /\ pageReqs = 3
  /\ Len(posts) = 24

\* C7: the lister never holds more than maxPosts document references,
\* whatever the size of the pages, and while a page request is outstanding
\* it holds fewer than maxPosts: none is issued once maxPosts are collected.
C7_AtMostMaxPosts ==
  /\ Len(posts) <= maxPosts
  /\ (lpc = "fetch") => Len(posts) < maxPosts
  /\ (lpc = "loop" /\ Len(posts) >= maxPosts) => ~ENABLED LRequestPage
  /\ (lpc = "returned" /\ ~(chunks # <<>> /\ EndsPaging(chunks[Len(chunks)]))) =>
       Len(posts) = maxPosts

C7_Witness ==
  /\ lpc = "returned"
  /\ maxPosts = 14
  /\ ChunkSizes = <<13, 13>>
  /\ Len(posts) = 14

\* C8: whatever the feed answers, as long as every page request is answered
\* the lister eventually returns.
C8_ListerReturns == <>(lpc \in {"returned", "failed"})

(***************************************************************************)
(* Claims about crawl, checked under Spec.                                 *)
(***************************************************************************)
\* this step issues the first request of an index page fetch or of a post's scan
StartsPageOrPostFetch ==
  \/ lpc # "fetch" /\ lpc' = "fetch"
  \/ pc # "lookup" /\ pc' = "lookup"

\* C5: every index page fetch and every post's fetch is followed by a
\* politePause before the next page or post is requested, also when the
\* post was skipped because its id could not be resolved or its fetch failed.
C5_PauseAfterEveryFetch == [][StartsPageOrPostFetch => lastUnpaused = "none"]_vars

IsPrefix(a, b) == Len(a) <= Len(b) /\ SubSeq(b, 1, Len(a)) = a

\* C9: an error thrown while one post is looked up or its comments are
\* fetched is caught: the run goes on to the pause at the end of the loop
\* body and never exits through crawl().catch because of it, out keeps every
\* record it held, and a run that got its list of posts visits all of them
\* and then writes the de-duplicated records.
C9_ErrorSkipsOnePost ==
  /\ [](/\ (caught # "none") => (pc = "pause" /\ idx \in skips)
        /\ (pc = "exit1") => (lpc = "failed" /\ skips = {} /\ caught = "none")
        /\ skips \subseteq 1..idx
        /\ (pc = "for" /\ idx < Len(posts)) => ENABLED (CSkipNoSlug \/ CRequestPostId)
        /\ (pc = "for" /\ idx = Len(posts)) => ENABLED CWrite
        /\ (pc = "done") => (idx = Len(posts) /\ file = Payload(Dedupe(out))))
  /\ [][/\ (skips' # skips) => (out' = out /\ idx' = idx /\ file' = file /\ posts' = posts)
        /\ (pc \in {"for", "lookup", "comments", "pause"}) => IsPrefix(out, out')]_vars

C9_Witness ==
  /\ pc = "done"
  /\ Len(posts) = 3
  /\ skips = {2}
  /\ Len(out) >= 2
  /\ out[1].postUrl = UrlA
  /\ out[Len(out)].postUrl = UrlB
  /\ file.rows = Dedupe(out)
  /\ file.count >= 2

\* C10: when a page fetch fails, the posts listed so far are still scanned
\* and the resulting dataset is written before the process exits.
C10_PartialDatasetPersisted ==
  (lpc = "failed" /\ pc \in {"done", "exit1"}) =>
    (idx = Len(posts) /\ file = Payload(Dedupe(out)))

\* C11: a post whose lookup yields no id is skipped and the crawl goes on:
\* the step returns to the for loop with out, idx and the error state as
\* they were, no comment request is ever issued for that post or without an
\* id, out does not change while that post is the current one, the run never
\* exits through crawl().catch because of it, and every following post is
\* visited before the dataset is written.
C11_UnresolvedPostIsSkipped ==
  /\ [](/\ (pc = "comments") => (Truthy(postId) /\ idx \notin unresolved)
        /\ unresolved \subseteq 1..idx
        /\ (pc = "exit1") => (unresolved = {})
        /\ (pc = "for" /\ idx < Len(posts)) => ENABLED (CSkipNoSlug \/ CRequestPostId)
        /\ (pc = "done") => (idx = Len(posts)))
  /\ [][/\ (unresolved' # unresolved) =>
             (/\ pc' = "for" /\ out' = out /\ idx' = idx /\ posts' = posts
              /\ caught' = "none" /\ skips' = skips /\ file' = file)
        /\ (idx \in unresolved /\ idx' = idx) => (out' = out)]_vars

C11_Witness ==
  /\ pc = "done"
  /\ Len(posts) = 2
  /\ unresolved = {1}
  /\ skips = {}
  /\ out # <<>>
  /\ \A i \in 1..Len(out) : out[i].postUrl = posts[2].url
  /\ file.count >= 1

\* C12: the file at OUT_PATH changes in one step of a run only, the write
\* that follows the for loop over all posts, and what is written then is the
\* de-duplicated out of the whole run; a run that stops anywhere before that
\* step, or exits through crawl().catch, leaves the file as the previous run
\* left it.
C12_FileWrittenOnlyAtEnd ==
  /\ [][(file' # file) =>
          (/\ pc = "for" /\ idx = Len(posts) /\ pc' = "done"
           /\ file' = Payload(Dedupe(out)))]_vars
  /\ []((pc # "done") => (file \in PreviousFiles))

C12_Witness ==
  /\ pc = "exit1"
  /\ lpc = "failed"
  /\ posts # <<>>
  /\ file = Payload(<<OldRecord>>)

(***************************************************************************)
(* Claims about the persisted dataset.                                     *)
(***************************************************************************)
\* postUrl + "||" + (commentId or "") + "||" + first 200 characters of text
KeyOf(rec) ==
  <<rec.postUrl, IF rec.commentId \in {Null, 0} THEN Null ELSE rec.commentId,
    SubSeq(rec.text, 1, IF Len(rec.text) < 200 THEN Len(rec.text) ELSE 200)>>

\* the positions of a list that hold the first record of their key
FirstOfKey(recs) ==
  {i \in 1..Len(recs) : \A j \in 1..(i - 1) : KeyOf(recs[j]) # KeyOf(recs[i])}

\* the k-th smallest element of a set of numbers
Nth(S, k) == CHOOSE i \in S : Cardinality({j \in S : j < i}) = k - 1

\* C13 (checked under StoreSpec): the rows a run writes hold no two records
\* with the same key, and they are the records of out that are the first of
\* their key, in the order they have in out.
C13_RowsAreFirstOccurrences ==
  (pc = "done") =>
    /\ \A i, j \in 1..Len(file.rows) :
         (KeyOf(file.rows[i]) = KeyOf(file.rows[j])) => (i = j)
    /\ Len(file.rows) = Cardinality(FirstOfKey(out))
    /\ \A k \in 1..Len(file.rows) : file.rows[k] = out[Nth(FirstOfKey(out), k)]
    /\ file.count = Len(file.rows)

C13_Witness ==
  /\ pc = "done"
  /\ Len(out) = 3
  /\ KeyOf(out[1]) = KeyOf(out[3])
  /\ out[1] # out[3]
  /\ KeyOf(out[1]) # KeyOf(out[2])
  /\ file.rows = <<out[1], out[2]>>
  /\ Len(out[2].text) > 200

WritesDataset == pc = "for" /\ pc' = "done"

\* C15: when a record already at OUT_PATH and a record collected by the run
\* have the same key, the dataset the run writes holds exactly one record of
\* that key, and it is the one that was already there.
C15_ExistingRecordWins ==
  [][WritesDataset =>
       \A e \in 1..Len(file.rows) :
         (\E i \in 1..Len(out) : KeyOf(out[i]) = KeyOf(file.rows[e])) =>
           /\ \E k \in 1..Len(file'.rows) : file'.rows[k] = file.rows[e]
           /\ Cardinality({k \in 1..Len(file'.rows) :
                             KeyOf(file'.rows[k]) = KeyOf(file.rows[e])}) = 1]_vars

\* C16: every record at OUT_PATH before a run writes the dataset is in the
\* dataset after the write.
C16_RowsAccumulate ==
  [][WritesDataset =>
       \A e \in 1..Len(file.rows) :
         \E k \in 1..Len(file'.rows) : file'.rows[k] = file.rows[e]]_vars

\* the record is that of a thread root: its comment id is its thread's id
IsThreadRootRecord(rec) == rec.commentId = rec.topLevelCommentId

\* C17: the dataset a run writes holds records of the target's comments
\* only, all with text, none from a post without comments, and the record
\* of a thread-root comment carries parentCommentId = null.
C17_RootRecordHasNullParent ==
  (pc = "done") =>
    \A k \in 1..Len(file.rows) :
      /\ file.rows[k].text # <<>>
      /\ \E p \in 1..Len(posts) : posts[p].url = file.rows[k].postUrl
      /\ IsThreadRootRecord(file.rows[k]) =>
           /\ "parentCommentId" \in DOMAIN file.rows[k]
           /\ file.rows[k].parentCommentId = Null

(***************************************************************************)
(* Claims about the author match, checked under MatchSpec.                 *)
(***************************************************************************)
\* the positions of s that stay when runs of whitespace are collapsed and
\* the ends are trimmed: the non-blank ones, and the first blank of a run
\* that has a non-blank on both sides
KeptPositions(s) ==
  {i \in 1..Len(s) :
     \/ s[i] \notin {" ", "\t", "\n", "\r"}
     \/ /\ i > 1
        /\ s[i - 1] \notin {" ", "\t", "\n", "\r"}
        /\ \E j \in (i + 1)..Len(s) : s[j] \notin {" ", "\t", "\n", "\r"}}

\* s whitespace-collapsed and trimmed
Squeezed(s) ==
  [k \in 1..Cardinality(KeptPositions(s)) |->
     LET i == Nth(KeptPositions(s), k)
     IN IF s[i] \in {" ", "\t", "\n", "\r"} THEN " " ELSE s[i]]

\* s lower-cased, without a leading "@"
HandleForm(s) ==
  LET low == [i \in 1..Len(s) |-> LowerChar(s[i])]
  IN IF Len(low) > 0 /\ low[1] = "@" THEN SubSeq(low, 2, Len(low)) ELSE low

MatchApplied == probe.fn = "matches" /\ probe.applied

\* C18 as stated: the comment matches exactly when its collapsed, trimmed
\* name equals the target name, or its handle, lower-cased and without a
\* leading "@", equals the target handle, a comment whose handle is empty
\* then never matching through the handle.
C18_Original ==
  MatchApplied =>
    (probe.result =
       (\/ Squeezed(probe.name) = WantedName(probe.raw)
        \/ /\ HandleForm(probe.handle) # <<>>
           /\ HandleForm(probe.handle) = WantedHandle(probe.raw)))

\* C18 as amended: the handle is whitespace-collapsed and trimmed before it
\* is lower-cased and its leading "@" is stripped, and the handle condition
\* needs the handle to be non-empty after that; name Jane matches target
\* Jane, name jane does not, handle @Jane matches target handle jane.
C18_MatchRule ==
  MatchApplied =>
    LET h == HandleForm(Squeezed(probe.handle))
    IN /\ probe.result =
            (\/ Squeezed(probe.name) = WantedName(probe.raw)
             \/ (h # <<>> /\ h = WantedHandle(probe.raw)))
       /\ (probe.raw = Jane /\ probe.name = Jane) => (probe.result = TRUE)
       /\ (probe.raw = Jane /\ probe.name = <<"j", "a", "n", "e">> /\ probe.handle = <<>>)
            => (probe.result = FALSE)
       /\ (probe.raw = Jane /\ probe.handle = <<"@">> \o Jane) => (probe.result = TRUE)

C18_Witness ==
  /\ MatchApplied
  /\ probe.raw = Jane
  /\ probe.name = <<"j", "a", "n", "e">>
  /\ probe.handle = <<" ", "@">> \o Jane \o <<" ">>
  /\ probe.result = TRUE

(***************************************************************************)
(* Claims about the normalizer, checked under NormSpec.                    *)
(***************************************************************************)
\* s with the trailing whitespace of each line stripped, runs of blank lines
\* collapsed to one blank line, and the whole trimmed
TrailingStripped(s) ==
  LET lines == SplitLines(s)
  IN Trim(CollapseBlankLines(
       JoinLines([i \in 1..Len(lines) |-> DropTrailing(lines[i], {" ", "\t", "\r"})])))

\* C19: for a body without markup the normalizer yields the body with the
\* trailing whitespace of each line stripped, blank-line runs collapsed and
\* the whole trimmed, every other character left as it is; applied to its
\* own output it changes nothing.
C19_PlainTextKept ==
  (probe.fn = "plain" /\ probe.applied) =>
    /\ probe.result = TrailingStripped(probe.body)
    /\ HtmlToTextPreserveFormatting(probe.result) = probe.result

\* the block-quote elements of a parse tree, outermost ones, in document order
RECURSIVE Blockquotes(_)
Blockquotes(nodes) ==
  IF nodes = <<>> THEN <<>>
  ELSE LET n == Head(nodes)
       IN (IF n.tag = "blockquote" THEN <<n>>
           ELSE IF n.tag = "#text" THEN <<>>
           ELSE Blockquotes(n.kids))
            \o Blockquotes(Tail(nodes))

IsQuoteLine(l) == Len(l) >= 2 /\ l[1] = ">" /\ l[2] = " "

\* the lines of text hold, from position i on, the lines ql prefixed with
\* "> ", with a blank line or an end of the text on either side
HoldsQuoteAt(lines, i, ql) ==
  /\ i + Len(ql) - 1 <= Len(lines)
  /\ \A k \in 1..Len(ql) : lines[i + k - 1] = <<">", " ">> \o ql[k]
  /\ (i = 1 \/ lines[i - 1] = <<>>)
  /\ (i + Len(ql) - 1 = Len(lines) \/ lines[i + Len(ql)] = <<>>)

RECURSIVE SumLen(_)
SumLen(seqs) == IF seqs = <<>> THEN 0 ELSE Len(Head(seqs)) + SumLen(Tail(seqs))

\* C20: for a body with markup that holds a block-quote, the normalized text
\* holds the non-empty lines of each quote, each prefixed with "> ", as a
\* block between blank lines, and no other line of it starts with "> "
\* (the bodies of the model hold no ">" of their own).
C20_QuotesRendered ==
  (probe.fn = "markup" /\ probe.applied /\ Blockquotes(probe.body) # <<>>) =>
    LET bqs == Blockquotes(ReplaceBr(probe.body))
        quotes == [b \in 1..Len(bqs) |-> CleanLinesOf(TextOf(bqs[b]))]
        lines == SplitLines(probe.result)
    IN /\ \A b \in 1..Len(quotes) :
            \E i \in 1..Len(lines) : HoldsQuoteAt(lines, i, quotes[b])
       /\ Cardinality({i \in 1..Len(lines) : IsQuoteLine(lines[i])}) = SumLen(quotes)

(***************************************************************************)
(* Claims about flattenComments, checked under FlattenSpec.                *)
(***************************************************************************)
ChildKeys == <<"children", "replies", "responses", "thread", "comments">>

\* the list under the first child key, in priority order, that is non-empty
FirstNonEmptyList(c) ==
  IF \E i \in 1..Len(ChildKeys) : c[ChildKeys[i]].present /\ c[ChildKeys[i]].list # <<>>
  THEN c[ChildKeys[CHOOSE i \in 1..Len(ChildKeys) :
                     /\ c[ChildKeys[i]].present /\ c[ChildKeys[i]].list # <<>>
                     /\ \A j \in 1..(i - 1) :
                          ~(c[ChildKeys[j]].present /\ c[ChildKeys[j]].list # <<>>)]].list
  ELSE <<>>

\* the list the traversal descends into: the one under the first child key present
SelectedList(c) ==
  IF \E i \in 1..Len(ChildKeys) : c[ChildKeys[i]].present
  THEN c[ChildKeys[CHOOSE i \in 1..Len(ChildKeys) :
                     /\ c[ChildKeys[i]].present
                     /\ \A j \in 1..(i - 1) : ~c[ChildKeys[j]].present]].list
  ELSE <<>>

\* the object nodes reachable from a list of entries through first non-empty lists
RECURSIVE ReachableFirstNonEmpty(_)
ReachableFirstNonEmpty(list) ==
  IF list = <<>> THEN <<>>
  ELSE (IF Head(list).isObject
        THEN <<Head(list)>> \o ReachableFirstNonEmpty(FirstNonEmptyList(Head(list)))
        ELSE <<>>)
       \o ReachableFirstNonEmpty(Tail(list))

\* the object nodes reachable from a list of entries through the selected lists
RECURSIVE ReachableSelected(_)
ReachableSelected(list) ==
  IF list = <<>> THEN <<>>
  ELSE (IF Head(list).isObject
        THEN <<Head(list)>> \o ReachableSelected(SelectedList(Head(list)))
        ELSE <<>>)
       \o ReachableSelected(Tail(list))

\* every entry, object or not, the traversal can come across
RECURSIVE EntryCount(_)
EntryCount(list) ==
  IF list = <<>> THEN 0
  ELSE 1 + (IF Head(list).isObject THEN EntryCount(SelectedList(Head(list))) ELSE 0)
         + EntryCount(Tail(list))

Occurrences(s, x) == Cardinality({i \in 1..Len(s) : s[i] = x})

\* both sequences hold the same nodes the same number of times
SameNodes(s, t) ==
  /\ Len(s) = Len(t)
  /\ \A i \in 1..Len(s) : Occurrences(s, s[i]) = Occurrences(t, s[i])

\* the entries flattenComments is called on, a bare node as a one-element list
EntriesOf(arg) == IF arg.isArray THEN arg.items ELSE <<arg.node>>

FlattenReturned == probe.fn = "flatten" /\ probe.applied

\* C21: the children of a node are the list under the first of children,
\* replies, responses, thread, comments that is a non-empty list; a key that is
\* present with an empty list is passed over, so the result of flattenComments
\* holds every node reachable through those lists.
C21_FirstNonEmptyKeyWins ==
  FlattenReturned =>
    SameNodes(probe.out, ReachableFirstNonEmpty(EntriesOf(probe.arg)))

\* C24: flattenComments ends after at most one iteration per entry of the
\* tree; its result holds each object node reachable through the selected
\* child lists exactly once and nothing else, entries that are not objects are
\* dropped, and a bare node gives what the one-element list of it gives.
C24_FlattenComplete ==
  probe.fn = "flatten" =>
    /\ probe.steps <= EntryCount(EntriesOf(probe.arg))
    /\ probe.applied \/ ENABLED FlattenNext
    /\ \A i \in 1..Len(probe.out) : probe.out[i].isObject
    /\ probe.applied =>
         /\ SameNodes(probe.out, ReachableSelected(EntriesOf(probe.arg)))
         /\ probe.steps = EntryCount(EntriesOf(probe.arg))

\* a bare node with a nested thread and a null entry has been flattened
C24_Witness ==
  /\ FlattenReturned
  /\ ~probe.arg.isArray
  /\ probe.arg.node = UnderComments
  /\ Len(probe.out) = 4
  /\ probe.steps = 5

(***************************************************************************)
(* Claims about the identifiers of a record, checked under IdSpec.         *)
(***************************************************************************)
IdsApplied == probe.fn = "ids" /\ probe.applied

\* the reply id of the probed node: comment_id, else commentId, else none
ReplyId == IF probe.comment_id # Null THEN probe.comment_id ELSE probe.commentId

\* C22: the commentId of a record is comment_id, else commentId, else id; its
\* topLevelCommentId is id whenever id is present and differs from that
\* commentId; for a thread root, a node without a reply id of its own, both
\* are equal; topLevelCommentId is null only when the node has no identifier.
C22_RecordIds ==
  IdsApplied =>
    /\ probe.result.commentId = (IF ReplyId # Null THEN ReplyId ELSE probe.id)
    /\ (probe.id # Null /\ probe.id # probe.result.commentId) =>
         probe.result.topLevelCommentId = probe.id
    /\ (ReplyId = Null \/ ReplyId = probe.id) =>
         probe.result.topLevelCommentId = probe.result.commentId
    /\ probe.result.topLevelCommentId = Null =>
         (probe.id = Null /\ probe.comment_id = Null /\ probe.commentId = Null)

\* a reply with id 1 and comment_id 2 has been assembled
C22_Witness ==
  /\ IdsApplied
  /\ probe.id = 1
  /\ probe.comment_id = 2
  /\ probe.result.commentId = 2
  /\ probe.result.topLevelCommentId = 1

(***************************************************************************)
(* The offsets of the page requests, checked under ListSpec.               *)
(***************************************************************************)
\* the offset of the i-th page request: the number of items, skipped ones
\* included, of the pages answered before it
OffsetRequested(i) == Len(AllItems(SubSeq(chunks, 1, i - 1)))

\* C23: paging starts at offset 0 and after each non-empty page the offset
\* grows by the number of items of that page, items without a canonical URL
\* included, not by the limit asked for; so the offsets requested increase
\* strictly and no position of the feed is requested twice.
C23_OffsetAdvances ==
  /\ offset = Len(AllItems(chunks))
  /\ pageReqs = 0 => offset = 0
  /\ pageReqs <= Len(chunks) + 1
  /\ (lpc = "fetch") =>
       /\ pageReqs = Len(chunks) + 1
       /\ offset = OffsetRequested(pageReqs)
  /\ \A i \in 1..pageReqs : \A j \in 1..pageReqs :
       i < j => OffsetRequested(i) < OffsetRequested(j)

\* the third page is requested at offset 4, after a page of three items with
\* a skipped one and a page whose only item is skipped
C23_Witness ==
  /\ lpc = "fetch"
  /\ pageReqs = 3
  /\ chunks = <<ArrayPage(<<ItemB, ItemNoUrl, ItemAbout>>), ArrayPage(<<ItemNoUrl>>)>>
  /\ offset = 4

SampleNodes ==
  UNION { {FlattenComments(CommentsOf(data))[i] :
             i \in 1..Len(FlattenComments(CommentsOf(data)))} : data \in CommentPayloads }

\* the author of the node is the target, by name or by handle
ByTarget(n) ==
  LET h == HandleForm(Squeezed(GetAuthorHandle(n)))
  IN \/ Squeezed(GetAuthorName(n)) = Squeezed(USERNAME_RAW)
     \/ (h # <<>> /\ h = HandleForm(Squeezed(USERNAME_RAW)))

\* the body of the node is more than whitespace
HasText(n) == \E i \in 1..Len(n.body) : n.body[i] \notin {" ", "\t", "\n", "\r"}

\* the record was assembled from a comment of the target that has text
FromTargetWithText(row) ==
  \E n \in SampleNodes :
    /\ ByTarget(n)
    /\ HasText(n)
    /\ row = RecordOf([url |-> row.postUrl, title |-> row.postTitle], row.postId, n)

\* C26: every record collected, and so every record of the written dataset,
\* comes from a comment whose author matches the target and has a non-empty
\* normalized text; a comment of the target whose body normalizes to the
\* empty text and a comment of another author leave no record.
C26_OnlyTargetWithText ==
  /\ \A k \in 1..Len(out) : out[k].text # <<>> /\ FromTargetWithText(out[k])
  /\ (pc = "done") =>
       /\ file # NoFile
       /\ \A k \in 1..Len(file.rows) :
            /\ file.rows[k].text # <<>>
            /\ FromTargetWithText(file.rows[k])
            /\ file.rows[k].commentId \notin
                 {GetSpecificCommentId(n) : n \in {m \in SampleNodes : ~ByTarget(m) \/ ~HasText(m)}}

\* a dataset is written after the payload with the blank comment of the
\* target and the payload with the root of another author were scanned:
\* it holds the comment matched by handle and the reply of the target only
C26_Witness ==
  /\ pc = "done"
  /\ file # NoFile
  /\ Len(file.rows) = 2
  /\ \E k \in 1..2 : file.rows[k].commentId = GetSpecificCommentId(RootByHandle)
  /\ \E k \in 1..2 : file.rows[k].commentId = GetSpecificCommentId(ReplyByTarget)

=============================================================================
